---- MODULE Spec2Model ----
(***************************************************************************)
(* Intellimark: mark-scheme store, answer aggregation and scoring.         *)
(*                                                                         *)
(* Server side: MemStorage (server/storage.ts) behind the route handlers   *)
(* of server/routes.ts.  Client side: the TestGraderContext state, the     *)
(* capture step and the processImagesMutation of hooks/use-test-grader.ts. *)
(*                                                                         *)
(* Representation.  A JavaScript string whose characters matter            *)
(* (expected answers, student answers, answer-map keys) is a sequence of   *)
(* one-character strings, so that trim / toUpperCase / toString are        *)
(* computed and not assumed.  Opaque strings (test names, image data) are  *)
(* TLA+ strings.  A JSON number that has not been validated yet is held in *)
(* tenths (15 is 1.5, 20 is 2), so that zod's .int() can fail.             *)
(***************************************************************************)
EXTENDS Integers, Sequences, FiniteSets

(***************************************************************************)
(* Bounds of the model.                                                    *)
(***************************************************************************)
MaxTests == 3
MaxEntries == 3
MaxUploadRows == 2
MaxResults == 2
MaxPages == 4

VARIABLES
    markSchemeEntries,          \* MemStorage.markSchemeEntries, in insertion (= id) order
    tests,                      \* MemStorage.tests
    pages,                      \* MemStorage.pages
    results,                    \* MemStorage.results
    currentMarkSchemeEntryId,
    currentTestId,
    currentPageId,
    currentResultId,
    currentTest,                \* TestGraderContext.currentTest (Null when none)
    markScheme,                 \* TestGraderContext.markScheme
    columnMap,                  \* TestGraderContext.columnMap (Null when none)
    file,                       \* MarkSchemeStep's file, as the rows of its sheet (Null when none)
    currentStep,                \* TestGraderContext.currentStep
    capturedPages,              \* TestGraderContext.capturedPages
    testResult,                 \* TestGraderContext.testResult (Null when none)
    detailedResults,            \* TestGraderContext.detailedResults
    processingPage,             \* TestGraderContext.processingPage (Null when none)
    totalProcessingPages,       \* TestGraderContext.totalProcessingPages
    processingProgress,         \* TestGraderContext.processingProgress, as done/of * 100
    pendingCaptures,            \* POST /pages requests of captureImageMutation in flight
    extractionsInFlight,        \* page ids of the POST /pages/:id/process requests in flight
    runPc,                      \* where the processImagesMutation run stands
    runTest,                    \* currentTest as the run's closure holds it
    runPages,                   \* capturedPages as the run's closure holds it
    runIndex,                   \* i of the page loop
    runResults,                 \* results, the accumulator of the page loop
    runExtracted,               \* data.extractedAnswers of each iteration so far
    runSummary,                 \* pointsEarned, totalPoints, scorePercentage of the run
    runResult,                  \* the body of the response to POST /results
    runDetailed,                \* the body of the response to GET /results/:id/detailed
    lastOp                      \* the request handled by the last step and its response

storeVars == <<markSchemeEntries, tests, pages, results, currentMarkSchemeEntryId,
               currentTestId, currentPageId, currentResultId>>

contextVars == <<currentTest, markScheme, columnMap, file>>

processVars == <<currentStep, capturedPages, testResult, detailedResults, processingPage,
                 totalProcessingPages, processingProgress, pendingCaptures,
                 extractionsInFlight, runPc, runTest,
                 runPages, runIndex, runResults, runExtracted, runSummary, runResult,
                 runDetailed>>

vars == <<storeVars, contextVars, processVars, lastOp>>

(***************************************************************************)
(* JavaScript strings as character sequences.                              *)
(***************************************************************************)
LowerLetters == <<"a","b","c","d","e","f","g","h","i","j","k","l","m",
                  "n","o","p","q","r","s","t","u","v","w","x","y","z">>
UpperLetters == <<"A","B","C","D","E","F","G","H","I","J","K","L","M",
                  "N","O","P","Q","R","S","T","U","V","W","X","Y","Z">>
Digits == <<"0","1","2","3","4","5","6","7","8","9">>

Range(f) == {f[i] : i \in DOMAIN f}

IndexIn(seq, c) == CHOOSE i \in DOMAIN seq : seq[i] = c

ToUpperChar(c) == IF c \in Range(LowerLetters) THEN UpperLetters[IndexIn(LowerLetters, c)] ELSE c
ToLowerChar(c) == IF c \in Range(UpperLetters) THEN LowerLetters[IndexIn(UpperLetters, c)] ELSE c

\* String.prototype.toUpperCase / toLowerCase
ToUpperCase(s) == [i \in DOMAIN s |-> ToUpperChar(s[i])]
ToLowerCase(s) == [i \in DOMAIN s |-> ToLowerChar(s[i])]

IsWhitespace(c) == c \in {" "}

\* String.prototype.trim
Trim(s) ==
    LET keep == {i \in DOMAIN s : ~IsWhitespace(s[i])}
    IN  IF keep = {} THEN <<>>
        ELSE LET lo == CHOOSE i \in keep : \A j \in keep : i <= j
                 hi == CHOOSE i \in keep : \A j \in keep : j <= i
             IN  SubSeq(s, lo, hi)

\* Number.prototype.toString for a non-negative integer
RECURSIVE NumToString(_)
NumToString(n) == IF n < 10 THEN <<Digits[n + 1]>>
               ELSE NumToString(n \div 10) \o <<Digits[(n % 10) + 1]>>

UndefinedWord == <<"u","n","d","e","f","i","n","e","d">>

\* The value `undefined` where a string or a record may be absent.
Undefined == "undefined-value"

\* The result of a floating-point computation that may be NaN.
NaN == [nan |-> TRUE, val |-> 0]
Number(v) == [nan |-> FALSE, val |-> v]

\* processingProgress = (done / of) * 100, held as the fraction in lowest terms
Progress(done, of) ==
    LET g == CHOOSE d \in 1..of :
                 /\ done % d = 0 /\ of % d = 0
                 /\ \A e \in 1..of : (done % e = 0 /\ of % e = 0) => e <= d
    IN  [done |-> done \div g, of |-> of \div g]

\* the empty answer map {}
NoAnswers == <<>>

NoSummary == [pointsEarned |-> 0, totalPoints |-> 0, scorePercentage |-> Number(0)]

\* A context field that may be null holds <<>> for null and <<v>> for v.
Null == <<>>
Some(v) == <<v>>

IsDigit(c) == c \in Range(Digits)
IsLetter(c) == c \in Range(LowerLetters) \cup Range(UpperLetters)

\* String.prototype.replace(/\D/g, '')
StripNonDigits(s) == SelectSeq(s, IsDigit)

\* a parseInt that reads the last digit only
ParseLastDigit(s) ==
    IF s = <<>> THEN 0 ELSE IndexIn(Digits, s[Len(s)]) - 1

\* parseInt of a non-empty string of decimal digits
RECURSIVE ParseDigits(_)
ParseDigits(s) ==
    IF s = <<>> THEN 0
    ELSE ParseDigits(SubSeq(s, 1, Len(s) - 1)) * 10 + (IndexIn(Digits, s[Len(s)]) - 1)

\* String(x) for a number held in tenths
NumberToString(t) ==
    LET a == IF t < 0 THEN -t ELSE t
        whole == NumToString(a \div 10)
        frac == IF a % 10 = 0 THEN <<>> ELSE <<".", Digits[(a % 10) + 1]>>
    IN  (IF t < 0 THEN <<"-">> ELSE <<>>) \o whole \o frac

(***************************************************************************)
(* shared/schema.ts                                                        *)
(***************************************************************************)
IsIntTenths(t) == t % 10 = 0

\* markSchemeRowSchema: what passes, on a row whose numbers are in tenths
markSchemeRowSchema(row) ==
    /\ IsIntTenths(row.questionNumber) /\ row.questionNumber > 0
    /\ Len(row.expectedAnswer) >= 1
    /\ IsIntTenths(row.points) /\ row.points >= 0

\* the value zod returns for a row that passes
ParsedRow(row) ==
    [questionNumber |-> row.questionNumber \div 10,
     expectedAnswer |-> row.expectedAnswer,
     points         |-> row.points \div 10]

\* z.array(markSchemeRowSchema).safeParse(parsedData)
ArraySafeParse(data) ==
    IF \A i \in DOMAIN data : markSchemeRowSchema(data[i])
    THEN [success |-> TRUE,  data |-> [i \in DOMAIN data |-> ParsedRow(data[i])]]
    ELSE [success |-> FALSE, data |-> <<>>]

(***************************************************************************)
(* client/src/lib/utils.ts : parseExcelWithColumnMap                       *)
(*                                                                         *)
(* A cell of a sheet row is undefined, null, a number (in tenths) or a     *)
(* string; a row maps column names to cells.                               *)
(***************************************************************************)
UndefinedCell == [t |-> "undefined", n |-> 0, s |-> <<>>]
NullCell      == [t |-> "null",      n |-> 0, s |-> <<>>]
Num(tenths)   == [t |-> "number",    n |-> tenths, s |-> <<>>]
Str(chars)    == [t |-> "string",    n |-> 0, s |-> chars]

\* row[col]
Get(row, col) == IF col \in DOMAIN row THEN row[col] ELSE UndefinedCell

\* JavaScript truthiness of a cell
Falsy(cell) ==
    \/ cell.t \in {"undefined", "null"}
    \/ cell.t = "number" /\ cell.n = 0
    \/ cell.t = "string" /\ cell.s = <<>>

\* String(cell)
StringOf(cell) ==
    CASE cell.t = "string"    -> cell.s
      [] cell.t = "number"    -> NumberToString(cell.n)
      [] cell.t = "null"      -> <<"n","u","l","l">>
      [] cell.t = "undefined" -> UndefinedWord

\* an answer handling that uppercases every answer
NormalizeAnswerUppercased(cell) ==
    IF cell.t \in {"undefined", "null"} THEN Str(<<>>)
    ELSE IF ToLowerCase(StringOf(cell)) = UndefinedWord THEN Str(<<>>)
    ELSE IF cell = Str(<<>>) THEN cell
    ELSE Str(ToUpperCase(Trim(StringOf(cell))))

\* lines 208-226: the expected answer after the special handling
NormalizeAnswer(cell) ==
    IF cell.t \in {"undefined", "null"} THEN Str(<<>>)
    ELSE IF ToLowerCase(StringOf(cell)) = UndefinedWord THEN Str(<<>>)
    ELSE IF cell = Str(<<>>) THEN cell
    ELSE LET answerStr == Trim(StringOf(cell))
         IN  IF Len(answerStr) = 1 /\ IsLetter(answerStr[1])
             THEN Str(ToUpperCase(answerStr))
             ELSE Str(answerStr)

\* a row number that goes on counting after the entries already loaded
RowNumberAfterLoaded(index) == Len(markScheme) + index + 1

\* lines 205 and 240: the row number used for a missing question number
RowNumber(index) == index + 1

\* lines 192-245: convertedData of the row at 0-based `index`, numbers in tenths
ConvertRow(row, cm, index) ==
    LET rawQ == Get(row, cm.questionNumberCol)
        rawP == Get(row, cm.pointsCol)
        points0 == IF Falsy(rawP) THEN Num(10) ELSE rawP
        questionNumber == IF rawQ.t \in {"undefined", "null"} THEN Num(RowNumber(index) * 10)
                          ELSE rawQ
        expectedAnswer == NormalizeAnswer(Get(row, cm.expectedAnswerCol))
        points == IF points0.t \in {"undefined", "null"} \/ points0 = Str(<<>>)
                  THEN Num(10) ELSE points0
        qDigits == StripNonDigits(StringOf(questionNumber))
        pDigits == StripNonDigits(StringOf(points))
        pParsed == ParseDigits(IF pDigits = <<>> THEN <<"1">> ELSE pDigits)
    IN  [questionNumber |->
            IF questionNumber.t = "number" THEN questionNumber.n
            ELSE 10 * (IF qDigits = <<>> THEN RowNumber(index) ELSE ParseDigits(qDigits)),
         expectedAnswer |->
            IF Falsy(expectedAnswer) THEN <<>> ELSE StringOf(expectedAnswer),
         points |->
            IF points.t = "number" THEN points.n
            ELSE 10 * (IF pParsed = 0 THEN 1 ELSE pParsed)]

ColumnMapIncomplete(cm) ==
    cm.questionNumberCol = "" \/ cm.expectedAnswerCol = "" \/ cm.pointsCol = ""

\* a check of the columns that leaves the points column out
ColumnsExistButPoints(firstRow, cm) ==
    /\ cm.questionNumberCol \in DOMAIN firstRow
    /\ cm.expectedAnswerCol \in DOMAIN firstRow

\* lines 171-187: the selected columns are keys of the first row
ColumnsExist(firstRow, cm) ==
    /\ cm.questionNumberCol \in DOMAIN firstRow
    /\ cm.expectedAnswerCol \in DOMAIN firstRow
    /\ cm.pointsCol \in DOMAIN firstRow

\* some row's convertedData fails markSchemeRowSchema.parse
RowFails(jsonData, cm) ==
    \E i \in DOMAIN jsonData : ~markSchemeRowSchema(ConvertRow(jsonData[i], cm, i - 1))

\* a normalizer that drops the rows that fail and resolves with the others
parseExcelSkippingBadRows(jsonData, cm) ==
    LET good == {i \in DOMAIN jsonData :
                    markSchemeRowSchema(ConvertRow(jsonData[i], cm, i - 1))}
        Nth(n) == CHOOSE i \in good : Cardinality({j \in good : j <= i}) = n
    IN  [ok |-> TRUE, error |-> "", row |-> 0,
         data |-> [n \in 1..Cardinality(good) |->
                      ParsedRow(ConvertRow(jsonData[Nth(n)], cm, Nth(n) - 1))]]

\* lines 142-270: the promise settles as resolved (ok, with the entries) or
\* rejected (with the reason, and the 1-based row for a row error)
parseExcelWithColumnMap(jsonData, cm) ==
    LET Rejected(why, row) == [ok |-> FALSE, error |-> why, row |-> row, data |-> <<>>]
    IN  IF ColumnMapIncomplete(cm) THEN Rejected("mapping-incomplete", 0)
        ELSE IF jsonData = <<>> THEN Rejected("no-data", 0)
        ELSE IF ~ColumnsExist(jsonData[1], cm) THEN Rejected("column-missing", 0)
        ELSE IF RowFails(jsonData, cm)
             THEN Rejected("row-invalid",
                           CHOOSE i \in DOMAIN jsonData :
                              /\ ~markSchemeRowSchema(ConvertRow(jsonData[i], cm, i - 1))
                              /\ \A j \in 1..(i - 1) :
                                    markSchemeRowSchema(ConvertRow(jsonData[j], cm, j - 1)))
             ELSE [ok |-> TRUE, error |-> "", row |-> 0,
                   data |-> [i \in DOMAIN jsonData |->
                                ParsedRow(ConvertRow(jsonData[i], cm, i - 1))]]

(***************************************************************************)
(* server/storage.ts : MemStorage                                          *)
(***************************************************************************)
\* Array.prototype.sort((a, b) => a.questionNumber - b.questionNumber) : a
\* stable sort
SortByQuestionNumber(s) ==
    LET pos(i) == Cardinality({j \in DOMAIN s : s[j].questionNumber < s[i].questionNumber})
                  + Cardinality({j \in DOMAIN s :
                                    j < i /\ s[j].questionNumber = s[i].questionNumber})
                  + 1
    IN  [p \in DOMAIN s |-> s[CHOOSE i \in DOMAIN s : pos(i) = p]]

\* a getMarkScheme that returns the entries in insertion order
getMarkSchemeUnsorted(store, testId) == SelectSeq(store, LAMBDA e : e.testId = testId)

getMarkSchemeIn(store, testId) ==
    SortByQuestionNumber(SelectSeq(store, LAMBDA e : e.testId = testId))

getMarkScheme(testId) == getMarkSchemeIn(markSchemeEntries, testId)

\* The entry addMarkSchemeEntry stores for `entry` under `id`.
SanitizedEntry(entry, id) ==
    LET trimmed == Trim(entry.expectedAnswer)
        expectedAnswer == IF ToLowerCase(trimmed) = UndefinedWord THEN <<>> ELSE trimmed
    IN  [id             |-> id,
         questionNumber |-> entry.questionNumber,
         expectedAnswer |-> expectedAnswer,
         points         |-> entry.points,
         testId         |-> entry.testId]

\* addMarkSchemeEntry applied to each entry of a batch in turn
addMarkSchemeEntriesTo(store, nextId, batch) ==
    store \o [i \in DOMAIN batch |-> SanitizedEntry(batch[i], nextId + i - 1)]

getTest(id) ==
    IF \E i \in DOMAIN tests : tests[i].id = id
    THEN tests[CHOOSE i \in DOMAIN tests : tests[i].id = id]
    ELSE Undefined

HasTest(id) == \E i \in DOMAIN tests : tests[i].id = id

\* createTest: { ...test, id } under a fresh id
createTestIn(ts, nextId, test) ==
    Append(ts, [id |-> nextId, name |-> test.name,
                totalQuestions |-> test.totalQuestions,
                totalPoints |-> test.totalPoints])

HasResult(testId) == \E i \in DOMAIN results : results[i].testId = testId

\* getResult: Array.from(values()).find(...) is the first match in insertion order
getResult(testId) ==
    IF HasResult(testId)
    THEN results[CHOOSE i \in DOMAIN results :
                    /\ results[i].testId = testId
                    /\ \A j \in DOMAIN results : results[j].testId = testId => i <= j]
    ELSE Undefined

\* the latest result addResult stored for the test (largest id)
LatestResult(testId) ==
    results[CHOOSE i \in DOMAIN results :
               /\ results[i].testId = testId
               /\ \A j \in DOMAIN results : results[j].testId = testId => j <= i]

\* answers[key] || '' : the empty string when the key is absent
AnswerOrEmpty(answers, key) == IF key \in DOMAIN answers THEN answers[key] ELSE <<>>

\* lines 222-240: the ResultItem of one entry
ResultItem(entry, studentAnswers) ==
    LET studentAnswer  == AnswerOrEmpty(studentAnswers, NumToString(entry.questionNumber))
        expectedAnswer == Trim(entry.expectedAnswer)
        correct        == ToUpperCase(studentAnswer) = ToUpperCase(expectedAnswer)
    IN  [questionNumber |-> entry.questionNumber,
         studentAnswer  |-> studentAnswer,
         expectedAnswer |-> expectedAnswer,
         points         |-> entry.points,
         earnedPoints   |-> IF correct THEN entry.points ELSE 0,
         correct        |-> correct]

\* what getDetailedResults computes from a result and the current mark scheme
DetailedFor(result, testId) ==
    LET ms == getMarkScheme(testId)
    IN  [i \in DOMAIN ms |-> ResultItem(ms[i], result.studentAnswers)]

\* a getDetailedResults that scores a blank sheet when no Result exists
getDetailedResultsOrBlank(testId) ==
    IF ~HasResult(testId) THEN DetailedFor([studentAnswers |-> NoAnswers], testId)
    ELSE DetailedFor(getResult(testId), testId)

getDetailedResults(testId) ==
    IF ~HasResult(testId) THEN <<>>
    ELSE DetailedFor(getResult(testId), testId)

\* insertResultSchema: the body passes unless a number is missing (JSON has no
\* NaN: JSON.stringify writes it as null)
insertResultSchema(body) == ~body.scorePercentage.nan

\* addResult: { ...result, id }
addResultTo(rs, nextId, body) ==
    Append(rs, [id |-> nextId, testId |-> body.testId,
                studentAnswers |-> body.studentAnswers,
                pointsEarned |-> body.pointsEarned,
                totalPoints |-> body.totalPoints,
                scorePercentage |-> body.scorePercentage.val])

(***************************************************************************)
(* Inputs of the server handlers.                                          *)
(***************************************************************************)
TestIds == 1..2

\* bodies of POST /tests, as MarkSchemeStep.handleCreateTest sends them
TestBodies == [name : {"Test"}, totalQuestions : {0}, totalPoints : {0}]

\* the first test the store creates for such a body
FirstTest == [id |-> 1, name |-> "Test", totalQuestions |-> 0, totalPoints |-> 0]

\* rows of markSchemeData (numbers in tenths): four rows that pass
\* markSchemeRowSchema (one of them blank, which the store trims to the empty
\* answer), and two that do not (question number 0, empty answer)
UploadRowValues ==
    {[questionNumber |-> 10, expectedAnswer |-> <<"A">>, points |-> 10],
     [questionNumber |-> 10, expectedAnswer |-> <<"b">>, points |-> 20],
     [questionNumber |-> 20, expectedAnswer |-> <<"b">>, points |-> 20],
     [questionNumber |-> 20, expectedAnswer |-> <<" ">>, points |-> 0],
     [questionNumber |-> 0,  expectedAnswer |-> <<"A">>, points |-> 10],
     [questionNumber |-> 10, expectedAnswer |-> <<>>,    points |-> 10]}

SeqsUpTo(S, n) == UNION {[1..k -> S] : k \in 0..n}

UploadBatches == SeqsUpTo(UploadRowValues, MaxUploadRows)

\* What lastOp keeps of a request: the handler, the status of its response,
\* the test it named, whether some row of its batch fails markSchemeRowSchema,
\* the number of rows of its batch and the number of entries in its response.
NoOp == [op |-> "none", status |-> 0, testId |-> 0, badRow |-> FALSE,
         rows |-> 0, count |-> 0]

(***************************************************************************)
(* server/routes.ts                                                        *)
(***************************************************************************)
Init ==
    /\ markSchemeEntries = <<>>
    /\ tests = <<>>
    /\ pages = <<>>
    /\ results = <<>>
    /\ currentMarkSchemeEntryId = 1
    /\ currentTestId = 1
    /\ currentPageId = 1
    /\ currentResultId = 1
    /\ currentTest = Null
    /\ markScheme = <<>>
    /\ columnMap = Null
    /\ file = Null
    /\ currentStep = "mark-scheme"
    /\ capturedPages = <<>>
    /\ testResult = Null
    /\ detailedResults = <<>>
    /\ processingPage = Null
    /\ totalProcessingPages = 0
    /\ processingProgress = Progress(0, 1)
    /\ pendingCaptures = <<>>
    /\ extractionsInFlight = <<>>
    /\ runPc = "idle"
    /\ runTest = Null
    /\ runPages = <<>>
    /\ runIndex = 0
    /\ runResults = NoAnswers
    /\ runExtracted = <<>>
    /\ runSummary = NoSummary
    /\ runResult = Null
    /\ runDetailed = <<>>
    /\ lastOp = NoOp

\* reduce((sum, n) => sum + n, 0) over a list of numbers
Sum(s) ==
    LET RECURSIVE Go(_)
        Go(k) == IF k = 0 THEN 0 ELSE Go(k - 1) + s[k]
    IN  Go(Len(s))

\* the points of the entries, in order
PointsOf(entries) == [i \in DOMAIN entries |-> entries[i].points]

\* POST /tests
PostTests(body) ==
    /\ Len(tests) < MaxTests
    /\ tests' = createTestIn(tests, currentTestId, body)
    /\ currentTestId' = currentTestId + 1
    /\ lastOp' = [NoOp EXCEPT !.op = "tests", !.status = 201, !.testId = currentTestId]
    /\ UNCHANGED <<markSchemeEntries, pages, results, currentMarkSchemeEntryId,
                   currentPageId, currentResultId>>
    /\ UNCHANGED <<contextVars, processVars>>

BadRow(data) == \E i \in DOMAIN data : ~markSchemeRowSchema(data[i])

\* POST /mark-scheme with body { testId, markSchemeData } : the response
\* status, the entries of the response and the store the handler leaves
markSchemeRoute(testId, data) ==
    LET validationResult == ArraySafeParse(data)
        batch   == [i \in DOMAIN validationResult.data |->
                      [questionNumber |-> validationResult.data[i].questionNumber,
                       expectedAnswer |-> Trim(validationResult.data[i].expectedAnswer),
                       points         |-> validationResult.data[i].points,
                       testId         |-> testId]]
        stored  == addMarkSchemeEntriesTo(markSchemeEntries, currentMarkSchemeEntryId, batch)
        entries == SubSeq(stored, Len(markSchemeEntries) + 1, Len(stored))
        test    == getTest(testId)
    IN  IF ~validationResult.success
        THEN [status |-> 400, entries |-> <<>>,
              markSchemeEntries |-> markSchemeEntries,
              currentMarkSchemeEntryId |-> currentMarkSchemeEntryId,
              tests |-> tests, currentTestId |-> currentTestId]
        ELSE [status |-> 200, entries |-> entries,
              markSchemeEntries |-> stored,
              currentMarkSchemeEntryId |-> currentMarkSchemeEntryId + Len(batch),
              tests |-> IF HasTest(testId)
                        THEN createTestIn(tests, currentTestId,
                                 [name |-> test.name,
                                  totalQuestions |-> Len(entries),
                                  totalPoints |-> Sum(PointsOf(entries))])
                        ELSE tests,
              currentTestId |-> IF HasTest(testId) THEN currentTestId + 1
                                ELSE currentTestId]

\* the store stays within the bounds of the model
WithinBounds(r) ==
    /\ Len(r.markSchemeEntries) <= MaxEntries
    /\ Len(r.tests) <= MaxTests

PostMarkScheme(testId, data) ==
    LET r == markSchemeRoute(testId, data)
    IN  /\ WithinBounds(r)
        /\ markSchemeEntries' = r.markSchemeEntries
        /\ currentMarkSchemeEntryId' = r.currentMarkSchemeEntryId
        /\ tests' = r.tests
        /\ currentTestId' = r.currentTestId
        /\ lastOp' = [NoOp EXCEPT !.op = "mark-scheme", !.status = r.status,
                                  !.testId = testId, !.badRow = BadRow(data),
                                  !.rows = Len(data), !.count = Len(r.entries)]
        /\ UNCHANGED <<pages, results, currentPageId, currentResultId>>
        /\ UNCHANGED <<contextVars, processVars>>

Next ==
    \/ \E body \in TestBodies : PostTests(body)
    \/ \E testId \in TestIds, data \in UploadBatches : PostMarkScheme(testId, data)

Spec == Init /\ [][Next]_vars

(***************************************************************************)
(* The upload path of the client: MarkSchemeStep.tsx and the               *)
(* createTestMutation of hooks/use-test-grader.ts.  A request and the      *)
(* handler that serves it are one step: there is one client.               *)
(***************************************************************************)
SheetRow(q, a, pts) == [c \in {"Q", "A", "P"} |->
                           CASE c = "Q" -> q [] c = "A" -> a [] c = "P" -> pts]

\* rows of the sheet: three that normalize to valid entries (a plain one, a
\* decorated one, one with an empty question cell and 0 points) and one
\* that does not (empty answer)
SheetRows ==
    {SheetRow(Num(10),            Str(<<"a">>),      Num(10)),
     SheetRow(Str(<<"Q", "2">>),  Str(<<"B">>),      Str(<<"2", " ", "p", "t", "s">>)),
     SheetRow(Str(<<>>),          Str(<<"B">>),      Num(0)),
     SheetRow(Num(10),            Str(<<>>),         Num(10))}

Sheets == SeqsUpTo(SheetRows, MaxUploadRows)

ColumnMaps ==
    {[questionNumberCol |-> "Q", expectedAnswerCol |-> "A", pointsCol |-> "P"],
     [questionNumberCol |-> "Q", expectedAnswerCol |-> "A", pointsCol |-> ""],
     [questionNumberCol |-> "Q", expectedAnswerCol |-> "X", pointsCol |-> "P"]}

\* batches posted to /mark-scheme without the normalizer: a valid row, the
\* word undefined as answer (valid, stored as the empty answer), and a
\* question number 0
DirectBatches ==
    SeqsUpTo({[questionNumber |-> 10, expectedAnswer |-> <<"A">>, points |-> 10],
              [questionNumber |-> 20, expectedAnswer |-> UndefinedWord, points |-> 0],
              [questionNumber |-> 0,  expectedAnswer |-> <<"A">>, points |-> 10]},
             MaxUploadRows)

\* JSON.stringify of parsed entries: the rows as the server reads them
ToJsonRows(parsedData) ==
    [i \in DOMAIN parsedData |->
        [questionNumber |-> parsedData[i].questionNumber * 10,
         expectedAnswer |-> parsedData[i].expectedAnswer,
         points         |-> parsedData[i].points * 10]]

\* handleCreateTest -> createTestMutation: POST /tests, then setCurrentTest
CreateTest(body) ==
    /\ Len(tests) < MaxTests
    /\ tests' = createTestIn(tests, currentTestId, body)
    /\ currentTestId' = currentTestId + 1
    /\ currentTest' = Some(tests'[Len(tests')])
    /\ lastOp' = [NoOp EXCEPT !.op = "create-test", !.status = 201,
                              !.testId = currentTestId]
    /\ UNCHANGED <<markSchemeEntries, pages, results, currentMarkSchemeEntryId,
                   currentPageId, currentResultId, markScheme, columnMap, file,
                   processVars>>

\* handleColumnMappingConfirm on the sheet `jsonData` of the chosen file
HandleColumnMappingConfirm(jsonData, columnMapping) ==
    LET parsed == parseExcelWithColumnMap(jsonData, columnMapping)
        r == markSchemeRoute(currentTest[1].id, ToJsonRows(parsed.data))
        op == [NoOp EXCEPT !.op = "confirm", !.rows = Len(jsonData),
                           !.badRow = RowFails(jsonData, columnMapping)]
    IN  IF ColumnMapIncomplete(columnMapping)
        THEN /\ lastOp' = op
             /\ UNCHANGED <<storeVars, contextVars, processVars>>
        ELSE IF currentTest = Null
        THEN /\ columnMap' = Some(columnMapping)
             /\ lastOp' = op
             /\ UNCHANGED <<storeVars, currentTest, markScheme, file, processVars>>
        ELSE IF ~parsed.ok
        THEN /\ columnMap' = Some(columnMapping)
             /\ lastOp' = [op EXCEPT !.testId = currentTest[1].id]
             /\ UNCHANGED <<storeVars, currentTest, markScheme, file, processVars>>
        ELSE /\ WithinBounds(r)
             /\ columnMap' = Some(columnMapping)
             /\ markScheme' = parsed.data
             /\ markSchemeEntries' = r.markSchemeEntries
             /\ currentMarkSchemeEntryId' = r.currentMarkSchemeEntryId
             /\ tests' = r.tests
             /\ currentTestId' = r.currentTestId
             /\ lastOp' = [op EXCEPT !.testId = currentTest[1].id, !.status = r.status,
                                     !.count = Len(r.entries)]
             /\ UNCHANGED <<pages, results, currentPageId, currentResultId, currentTest,
                            file, processVars>>

NextUpload ==
    \/ \E body \in TestBodies : CreateTest(body)
    \/ \E jsonData \in Sheets, cm \in ColumnMaps : HandleColumnMappingConfirm(jsonData, cm)
    \/ \E data \in DirectBatches :
          currentTest # Null /\ PostMarkScheme(currentTest[1].id, data)

SpecUpload == Init /\ [][NextUpload]_vars

(***************************************************************************)
(* The normalizer on bounded sheets: a test exists, a file has been        *)
(* chosen, and the column mapping is confirmed.  sheet_to_json is called   *)
(* with defval "", so a cell without content reaches the normalizer as the *)
(* empty string.                                                           *)
(***************************************************************************)
Chars(word) ==
    CASE word = "Q7"        -> <<"Q", "7">>
      [] word = "Q12"       -> <<"Q", "1", "2">>
      [] word = "x"         -> <<"x">>
      [] word = "a"         -> <<"a">>
      [] word = " b "       -> <<" ", "b", " ">>
      [] word = "ab"        -> <<"a", "b">>
      [] word = "undefined" -> UndefinedWord
      [] word = "UNDEFINED" -> ToUpperCase(UndefinedWord)
      [] word = "Undefined" -> <<"U">> \o SubSeq(UndefinedWord, 2, 9)
      [] word = "10 pts"    -> <<"1", "0", " ", "p", "t", "s">>
      [] word = "0 pts"     -> <<"0", " ", "p", "t", "s">>
      [] word = "pts"       -> <<"p", "t", "s">>
      [] word = ""          -> <<>>

QuestionCells == {Num(10), Num(20), Str(Chars("Q7")), Str(Chars("Q12")), Str(Chars("x")),
                  Str(Chars(""))}

AnswerCells == {Str(Chars("")), Str(Chars("a")), Str(Chars(" b ")), Str(Chars("ab")),
                Str(Chars("undefined")), Str(Chars("UNDEFINED")), Str(Chars("Undefined"))}

PointsCells == {Num(10), Num(0), Str(Chars("")), Str(Chars("10 pts")), Str(Chars("0 pts")),
                Str(Chars("pts"))}

\* sheets of one row, and sheets of two rows whose first row is plain
NormalizerSheets ==
    {<<SheetRow(q, a, pts)>> : q \in QuestionCells, a \in AnswerCells, pts \in PointsCells}
    \cup
    {<<SheetRow(Num(10), Str(Chars("a")), Num(10)), SheetRow(q, a, Num(10))>> :
        q \in {Str(Chars("")), Str(Chars("x")), Str(Chars("Q7"))},
        a \in {Str(Chars("")), Str(Chars(" b "))}}

\* the mappings the dialog can hold for these sheets: those above, and one
\* whose points column is not a header
NormalizerColumnMaps ==
    ColumnMaps \cup
    {[questionNumberCol |-> "Q", expectedAnswerCol |-> "A", pointsCol |-> "X"]}

\* handleColumnMappingConfirm on the file of the component
ConfirmChosenFile(columnMapping) ==
    /\ file # Null
    /\ HandleColumnMappingConfirm(file[1], columnMapping)

InitNormalize ==
    /\ markSchemeEntries = <<>>
    /\ tests = <<FirstTest>>
    /\ pages = <<>>
    /\ results = <<>>
    /\ currentMarkSchemeEntryId = 1
    /\ currentTestId = 2
    /\ currentPageId = 1
    /\ currentResultId = 1
    /\ currentTest = Some(FirstTest)
    /\ markScheme = <<>>
    /\ columnMap = Null
    /\ file \in {Some(sheet) : sheet \in NormalizerSheets}
    /\ currentStep = "mark-scheme"
    /\ capturedPages = <<>>
    /\ testResult = Null
    /\ detailedResults = <<>>
    /\ processingPage = Null
    /\ totalProcessingPages = 0
    /\ processingProgress = Progress(0, 1)
    /\ pendingCaptures = <<>>
    /\ extractionsInFlight = <<>>
    /\ runPc = "idle"
    /\ runTest = Null
    /\ runPages = <<>>
    /\ runIndex = 0
    /\ runResults = NoAnswers
    /\ runExtracted = <<>>
    /\ runSummary = NoSummary
    /\ runResult = Null
    /\ runDetailed = <<>>
    /\ lastOp = NoOp

NextNormalize == \E cm \in NormalizerColumnMaps : ConfirmChosenFile(cm)

SpecNormalize == InitNormalize /\ [][NextNormalize]_vars

(***************************************************************************)
(* The result store behind POST /results and GET /results/:testId.         *)
(***************************************************************************)
Key(n) == NumToString(n)

\* the answer map { "1": answer }
OneAnswer(answer) == [k \in {Key(1)} |-> answer]

ResultBodies ==
    [testId : TestIds,
     studentAnswers : {OneAnswer(<<"A">>), OneAnswer(<<"b">>)},
     pointsEarned : {0}, totalPoints : {0}, scorePercentage : {NaN}]
    \cup
    [testId : TestIds,
     studentAnswers : {OneAnswer(<<"A">>), OneAnswer(<<"b">>)},
     pointsEarned : {0, 1}, totalPoints : {1}, scorePercentage : {Number(0)}]

\* mark schemes uploaded while results exist: question 1 with answer A, or
\* question 2 with answer b
ResultSpecBatches ==
    SeqsUpTo({[questionNumber |-> 10, expectedAnswer |-> <<"A">>, points |-> 10],
              [questionNumber |-> 20, expectedAnswer |-> <<"b">>, points |-> 20]}, 1)

\* POST /results
PostResults(body) ==
    IF ~insertResultSchema(body)
    THEN /\ lastOp' = [NoOp EXCEPT !.op = "results", !.status = 400,
                                   !.testId = body.testId]
         /\ UNCHANGED <<storeVars, contextVars, processVars>>
    ELSE /\ Len(results) < MaxResults
         /\ results' = addResultTo(results, currentResultId, body)
         /\ currentResultId' = currentResultId + 1
         /\ lastOp' = [NoOp EXCEPT !.op = "results", !.status = 201,
                                   !.testId = body.testId]
         /\ UNCHANGED <<markSchemeEntries, tests, pages, currentMarkSchemeEntryId,
                        currentTestId, currentPageId>>
         /\ UNCHANGED <<contextVars, processVars>>

\* GET /results/:testId/detailed
GetResultsDetailed(testId) ==
    /\ lastOp' = [NoOp EXCEPT !.op = "get-detailed", !.status = 200, !.testId = testId,
                              !.count = Len(getDetailedResults(testId))]
    /\ UNCHANGED <<storeVars, contextVars, processVars>>

NextResults ==
    \/ \E body \in ResultBodies : PostResults(body)
    \/ \E data \in ResultSpecBatches : PostMarkScheme(1, data)
    \/ \E testId \in TestIds : GetResultsDetailed(testId)

SpecResults == Init /\ [][NextResults]_vars

(***************************************************************************)
(* hooks/use-test-grader.ts : processImagesMutation, from the score        *)
(* calculation on.                                                         *)
(***************************************************************************)
\* lines 185-188: what one entry adds to pointsEarned
EarnedBy(entry, answers) ==
    LET key == NumToString(entry.questionNumber)
    IN  IF /\ key \in DOMAIN answers
           /\ answers[key] # <<>>
           /\ ToUpperCase(answers[key]) = ToUpperCase(entry.expectedAnswer)
        THEN entry.points
        ELSE 0

\* Math.round((pointsEarned / totalPoints) * 100).  0 / 0 is NaN; otherwise the
\* quotients of the model (totalPoints below 40) round as the exact
\* fraction does, halves upwards.
RoundedPercentage(pointsEarned, totalPoints) ==
    IF totalPoints = 0 THEN NaN
    ELSE Number((200 * pointsEarned + totalPoints) \div (2 * totalPoints))

\* lines 179-191: the summary computed from the fetched mark scheme
ScoreSummary(ms, answers) ==
    LET pointsEarned == Sum([i \in DOMAIN ms |-> EarnedBy(ms[i], answers)])
        totalPoints  == Sum(PointsOf(ms))
    IN  [pointsEarned    |-> pointsEarned,
         totalPoints     |-> totalPoints,
         scorePercentage |-> RoundedPercentage(pointsEarned, totalPoints)]

\* lines 173-191: fetch the mark scheme of the run's test and compute the score
RunScore ==
    /\ runPc = "score"
    /\ runSummary' = ScoreSummary(getMarkScheme(runTest[1].id), runResults)
    /\ runPc' = "post"
    /\ lastOp' = [NoOp EXCEPT !.op = "score", !.testId = runTest[1].id]
    /\ UNCHANGED <<storeVars, contextVars, currentStep, capturedPages, testResult,
                   detailedResults, processingPage, totalProcessingPages,
                   processingProgress, pendingCaptures, extractionsInFlight,
                   runTest, runPages, runIndex,
                   runResults, runExtracted, runResult, runDetailed>>

ResultBodyOfRun ==
    [testId          |-> runTest[1].id,
     studentAnswers  |-> runResults,
     pointsEarned    |-> runSummary.pointsEarned,
     totalPoints     |-> runSummary.totalPoints,
     scorePercentage |-> runSummary.scorePercentage]

\* the body of a 4xx/5xx response
ErrorBody == [message |-> "error"]

\* lines 193-202: POST /results with the summary.  When the server refuses the
\* body, the request helper (lib/queryClient, apiRequest) either throws, which
\* fails the run, or hands the response on, and the run goes on with its body.
RunPostResult(throws) ==
    /\ runPc = "post"
    /\ IF insertResultSchema(ResultBodyOfRun)
       THEN /\ Len(results) < MaxResults
            /\ results' = addResultTo(results, currentResultId, ResultBodyOfRun)
            /\ currentResultId' = currentResultId + 1
            /\ runResult' = Some(results'[Len(results')])
            /\ runPc' = "detailed"
            /\ lastOp' = [NoOp EXCEPT !.op = "results", !.status = 201,
                                      !.testId = runTest[1].id]
       ELSE /\ UNCHANGED <<results, currentResultId>>
            /\ runResult' = IF throws THEN runResult ELSE Some(ErrorBody)
            /\ runPc' = IF throws THEN "failed" ELSE "detailed"
            /\ lastOp' = [NoOp EXCEPT !.op = "results", !.status = 400,
                                      !.testId = runTest[1].id]
    /\ UNCHANGED <<markSchemeEntries, tests, pages, currentMarkSchemeEntryId,
                   currentTestId, currentPageId, contextVars, currentStep,
                   capturedPages, testResult, detailedResults, processingPage,
                   totalProcessingPages, processingProgress, pendingCaptures,
                   extractionsInFlight, runTest,
                   runPages, runIndex, runResults, runExtracted, runSummary,
                   runDetailed>>

\* lines 204-210: GET /results/:testId/detailed
RunFetchDetailed ==
    /\ runPc = "detailed"
    /\ runDetailed' = getDetailedResults(runTest[1].id)
    /\ runPc' = "success"
    /\ lastOp' = [NoOp EXCEPT !.op = "detailed", !.status = 200,
                              !.testId = runTest[1].id]
    /\ UNCHANGED <<storeVars, contextVars, currentStep, capturedPages, testResult,
                   detailedResults, processingPage, totalProcessingPages,
                   processingProgress, pendingCaptures, extractionsInFlight,
                   runTest, runPages, runIndex,
                   runResults, runExtracted, runSummary, runResult>>

\* lines 212-226: onSuccess
RunOnSuccess ==
    /\ runPc = "success"
    /\ testResult' = runResult
    /\ detailedResults' = runDetailed
    /\ processingPage' = Null
    /\ processingProgress' = Progress(1, 1)
    /\ currentStep' = "results"
    /\ runPc' = "idle"
    /\ lastOp' = [NoOp EXCEPT !.op = "run-success", !.testId = runTest[1].id]
    /\ UNCHANGED <<storeVars, contextVars, capturedPages, totalProcessingPages,
                   pendingCaptures, extractionsInFlight, runTest, runPages, runIndex,
                   runResults,
                   runExtracted, runSummary, runResult, runDetailed>>

\* lines 227-233: onError
RunOnError ==
    /\ runPc = "failed"
    /\ runPc' = "idle"
    /\ lastOp' = [NoOp EXCEPT !.op = "run-error"]
    /\ UNCHANGED <<storeVars, contextVars, currentStep, capturedPages, testResult,
                   detailedResults, processingPage, totalProcessingPages,
                   processingProgress, pendingCaptures, extractionsInFlight,
                   runTest, runPages, runIndex,
                   runResults, runExtracted, runSummary, runResult, runDetailed>>

(***************************************************************************)
(* The scorer on bounded inputs: a run that has merged the answers of its  *)
(* one page and is about to score, against each mark scheme the store can  *)
(* hold for the test.                                                      *)
(***************************************************************************)
MaxSchemeLen == 2

\* entries as the store holds them: expected answers trimmed, empty, or a letter
SchemeEntryValues ==
    [questionNumber : 1..2, expectedAnswer : {<<>>, <<"A">>, <<"b">>}, points : {0, 5}]

EntriesOf(rows, testId) ==
    [i \in DOMAIN rows |->
        [id |-> i, questionNumber |-> rows[i].questionNumber,
         expectedAnswer |-> rows[i].expectedAnswer, points |-> rows[i].points,
         testId |-> testId]]

\* the example of the specification: entries {1,A,5},{2,B,5},{3,'',5}
ExampleScheme ==
    <<[questionNumber |-> 1, expectedAnswer |-> <<"A">>, points |-> 5],
      [questionNumber |-> 2, expectedAnswer |-> <<"B">>, points |-> 5],
      [questionNumber |-> 3, expectedAnswer |-> <<>>,    points |-> 5]>>

\* ... with the answers {1: a, 2: C, 3: ''}
ExampleAnswers ==
    [k \in {Key(1), Key(2), Key(3)} |->
        CASE k = Key(1) -> <<"a">> [] k = Key(2) -> <<"C">> [] k = Key(3) -> <<>>]

\* answer maps over the keys "1" and "2": absent, empty, a, B
StudentAnswerValues == {<<>>, <<"a">>, <<"B">>}

AnswerMaps ==
    UNION {[keys -> StudentAnswerValues] : keys \in SUBSET {Key(1), Key(2)}}

ProcessedPage(answers) ==
    [id |-> 1, testId |-> 1, pageNumber |-> 1, imageData |-> "image",
     processed |-> TRUE, extractedAnswers |-> answers]

CapturedPage(page) == [page EXCEPT !.processed = FALSE, !.extractedAnswers = NoAnswers]

InitScore ==
    \E rows \in SeqsUpTo(SchemeEntryValues, MaxSchemeLen) \cup {ExampleScheme},
       answers \in AnswerMaps \cup {ExampleAnswers} :
        /\ markSchemeEntries = EntriesOf(rows, 1)
        /\ currentMarkSchemeEntryId = Len(rows) + 1
        /\ tests = <<FirstTest>>
        /\ currentTestId = 2
        /\ pages = <<ProcessedPage(answers)>>
        /\ currentPageId = 2
        /\ results = <<>>
        /\ currentResultId = 1
        /\ currentTest = Some(FirstTest)
        /\ markScheme = <<>>
        /\ columnMap = Null
        /\ file = Null
        /\ currentStep = "process"
        /\ capturedPages = <<CapturedPage(ProcessedPage(answers))>>
        /\ testResult = Null
        /\ detailedResults = <<>>
        /\ processingPage = Some(1)
        /\ totalProcessingPages = 1
        /\ processingProgress = Progress(1, 1)
        /\ pendingCaptures = <<>>
        /\ extractionsInFlight = <<>>
        /\ runPc = "score"
        /\ runTest = Some(FirstTest)
        /\ runPages = capturedPages
        /\ runIndex = 1
        /\ runResults = answers
        /\ runExtracted = <<answers>>
        /\ runSummary = NoSummary
        /\ runResult = Null
        /\ runDetailed = <<>>
        /\ lastOp = NoOp

NextScore ==
    \/ RunScore
    \/ \E throws \in BOOLEAN : RunPostResult(throws)
    \/ RunFetchDetailed
    \/ RunOnSuccess
    \/ RunOnError

SpecScore == InitScore /\ [][NextScore]_vars

(***************************************************************************)
(* The capture step (components/CaptureStep.tsx), the page store behind    *)
(* POST /pages and POST /pages/:id/process, and the page loop of           *)
(* processImagesMutation.                                                  *)
(***************************************************************************)
\* storage.ts addPage
addPage(page, id) ==
    [id |-> id, testId |-> page.testId, pageNumber |-> page.pageNumber,
     imageData |-> page.imageData, processed |-> FALSE, extractedAnswers |-> NoAnswers]

\* storage.ts getPage: the pages with the id (none when getPage throws)
PagesWithId(id) == {k \in DOMAIN pages : pages[k].id = id}

\* an updatePageProcessed that marks every stored page
updateEveryPage(ps, id, processed, extractedAnswers) ==
    [k \in DOMAIN ps |->
        [ps[k] EXCEPT !.processed = processed,
                      !.extractedAnswers = IF ps[k].id = id THEN extractedAnswers ELSE @]]

\* storage.ts updatePageProcessed
updatePageProcessed(ps, id, processed, extractedAnswers) ==
    [k \in DOMAIN ps |->
        IF ps[k].id = id
        THEN [ps[k] EXCEPT !.processed = processed, !.extractedAnswers = extractedAnswers]
        ELSE ps[k]]

\* TestGraderContext.addCapturedPage
addCapturedPage(prev, page) ==
    IF \E k \in DOMAIN prev : prev[k].pageNumber = page.pageNumber
    THEN [k \in DOMAIN prev |->
            IF prev[k].pageNumber = page.pageNumber THEN page ELSE prev[k]]
    ELSE Append(prev, page)

\* TestGraderContext.removeCapturedPage: prev.filter(p => p.pageNumber !== pageNumber)
removeCapturedPage(prev, pageNumber) ==
    LET kept == {k \in DOMAIN prev : prev[k].pageNumber # pageNumber}
        Nth(n) == CHOOSE k \in kept : Cardinality({j \in kept : j <= k}) = n
    IN  [n \in 1..Cardinality(kept) |-> prev[Nth(n)]]

RemoveAt(s, k) == SubSeq(s, 1, k - 1) \o SubSeq(s, k + 1, Len(s))

\* Object.assign(results, extracted)
ObjectAssign(target, source) ==
    [k \in DOMAIN target \cup DOMAIN source |->
        IF k \in DOMAIN source THEN source[k] ELSE target[k]]

\* CaptureStep.handleCapture / handleFileUpload: the mutation is started with
\* pageNumber = capturedPages.length + 1
HandleCapture ==
    /\ currentStep = "capture"
    /\ currentTest # Null
    /\ Len(pages) + Len(pendingCaptures) < MaxPages
    /\ pendingCaptures' =
          Append(pendingCaptures,
                 [imageData |-> "image", pageNumber |-> Len(capturedPages) + 1,
                  testId |-> currentTest[1].id])
    /\ lastOp' = [NoOp EXCEPT !.op = "capture", !.testId = currentTest[1].id]
    /\ UNCHANGED <<storeVars, contextVars, currentStep, capturedPages, testResult,
                   detailedResults, processingPage, totalProcessingPages,
                   processingProgress, extractionsInFlight, runPc, runTest, runPages,
                   runIndex, runResults, runExtracted, runSummary, runResult,
                   runDetailed>>

\* POST /pages for the k-th request in flight, and onSuccess of
\* captureImageMutation with the page of the response
PostPages(k) ==
    /\ k \in DOMAIN pendingCaptures
    /\ LET page == addPage(pendingCaptures[k], currentPageId)
       IN  /\ pages' = Append(pages, page)
           /\ currentPageId' = currentPageId + 1
           /\ capturedPages' = addCapturedPage(capturedPages, page)
           /\ lastOp' = [NoOp EXCEPT !.op = "pages", !.status = 201,
                                     !.testId = page.testId, !.count = page.pageNumber]
    /\ pendingCaptures' = RemoveAt(pendingCaptures, k)
    /\ UNCHANGED <<markSchemeEntries, tests, results, currentMarkSchemeEntryId,
                   currentTestId, currentResultId, contextVars, currentStep, testResult,
                   detailedResults, processingPage, totalProcessingPages,
                   processingProgress, extractionsInFlight, runPc, runTest, runPages,
                   runIndex, runResults, runExtracted, runSummary, runResult,
                   runDetailed>>

\* CaptureStep.handleDeleteImage, confirmed by the user
HandleDeleteImage(pageNumber) ==
    /\ currentStep = "capture"
    /\ \E k \in DOMAIN capturedPages : capturedPages[k].pageNumber = pageNumber
    /\ capturedPages' = removeCapturedPage(capturedPages, pageNumber)
    /\ lastOp' = [NoOp EXCEPT !.op = "delete-image", !.count = pageNumber]
    /\ UNCHANGED <<storeVars, contextVars, currentStep, testResult, detailedResults,
                   processingPage, totalProcessingPages, processingProgress,
                   pendingCaptures, extractionsInFlight, runPc, runTest, runPages,
                   runIndex, runResults,
                   runExtracted, runSummary, runResult, runDetailed>>

\* CaptureStep.handleNext
CaptureHandleNext ==
    /\ currentStep = "capture"
    /\ Len(capturedPages) # 0
    /\ currentStep' = "process"
    /\ lastOp' = [NoOp EXCEPT !.op = "next"]
    /\ UNCHANGED <<storeVars, contextVars, capturedPages, testResult, detailedResults,
                   processingPage, totalProcessingPages, processingProgress,
                   pendingCaptures, extractionsInFlight, runPc, runTest, runPages,
                   runIndex, runResults,
                   runExtracted, runSummary, runResult, runDetailed>>

\* ProcessStep's effect starts the mutation; mutationFn lines 147-153:
\* the two checks, startProcessing, the empty accumulator
RunStart ==
    /\ currentStep = "process"
    /\ runPc = "idle"
    /\ Len(capturedPages) > 0
    /\ processingPage = Null
    /\ processingProgress = Progress(0, 1)
    /\ runTest' = currentTest
    /\ runPages' = capturedPages
    /\ runIndex' = 0
    /\ runResults' = NoAnswers
    /\ runExtracted' = <<>>
    /\ runSummary' = NoSummary
    /\ runResult' = Null
    /\ runDetailed' = <<>>
    /\ IF currentTest = Null
       THEN /\ runPc' = "failed"
            /\ UNCHANGED <<totalProcessingPages, processingPage, processingProgress>>
       ELSE /\ runPc' = "page"
            /\ totalProcessingPages' = Len(capturedPages)
            /\ processingPage' = Some(1)
            /\ processingProgress' = Progress(0, 1)
    /\ lastOp' = [NoOp EXCEPT !.op = "run-start"]
    /\ UNCHANGED <<storeVars, contextVars, currentStep, capturedPages, testResult,
                   detailedResults, pendingCaptures, extractionsInFlight>>

\* a loop head that issues the requests of all remaining pages at once
RunSendRemainingPages ==
    /\ runPc = "page"
    /\ runIndex < Len(runPages)
    /\ processingPage' = Some(runIndex + 1)
    /\ processingProgress' = Progress(runIndex, Len(runPages))
    /\ extractionsInFlight' =
          extractionsInFlight
             \o [k \in 1..(Len(runPages) - runIndex) |-> runPages[runIndex + k].id]
    /\ runPc' = "await-page"
    /\ lastOp' = [NoOp EXCEPT !.op = "send-page", !.count = runPages[runIndex + 1].id]
    /\ UNCHANGED <<storeVars, contextVars, currentStep, capturedPages, testResult,
                   detailedResults, totalProcessingPages, pendingCaptures, runTest,
                   runPages, runIndex, runResults, runExtracted, runSummary, runResult,
                   runDetailed>>

\* lines 156-163: the head of one iteration, up to the request
RunSendPage ==
    /\ runPc = "page"
    /\ runIndex < Len(runPages)
    /\ processingPage' = Some(runIndex + 1)
    /\ processingProgress' = Progress(runIndex, Len(runPages))
    /\ extractionsInFlight' = Append(extractionsInFlight, runPages[runIndex + 1].id)
    /\ runPc' = "await-page"
    /\ lastOp' = [NoOp EXCEPT !.op = "send-page", !.count = runPages[runIndex + 1].id]
    /\ UNCHANGED <<storeVars, contextVars, currentStep, capturedPages, testResult,
                   detailedResults, totalProcessingPages, pendingCaptures, runTest,
                   runPages, runIndex, runResults, runExtracted, runSummary, runResult,
                   runDetailed>>

\* what extractAnswersFromImage makes of an image: answers, or it throws
ExtractionOutcomes ==
    {[ok |-> TRUE, answers |-> a] :
        a \in {NoAnswers, OneAnswer(<<"A">>), OneAnswer(<<"B">>)}}
    \cup {[ok |-> FALSE, answers |-> NoAnswers]}

\* a handler that records the page as processed, without answers, when the
\* extraction fails
processPageRouteMarkingFailures(id, outcome) ==
    IF PagesWithId(id) = {}
    THEN [status |-> 404, pages |-> pages]
    ELSE IF outcome.ok
    THEN [status |-> 200, pages |-> updatePageProcessed(pages, id, TRUE, outcome.answers)]
    ELSE [status |-> 500, pages |-> updatePageProcessed(pages, id, TRUE, NoAnswers)]

\* routes.ts POST /pages/:id/process: 404 when getPage finds no page, 500 when
\* the API key is missing or extractAnswersFromImage throws, else the page is
\* updated and the answer is 200; the status and the pages the handler leaves
processPageRoute(id, outcome) ==
    IF PagesWithId(id) = {}
    THEN [status |-> 404, pages |-> pages]
    ELSE IF outcome.ok
    THEN [status |-> 200, pages |-> updatePageProcessed(pages, id, TRUE, outcome.answers)]
    ELSE [status |-> 500, pages |-> pages]

\* POST /pages/:id/process for the page of the iteration, then lines 164-170:
\* merge the extracted answers, update the progress.  On a 404 / 500 the
\* request helper (lib/queryClient, apiRequest) either throws, which fails the
\* run, or hands the response on, whose body has no extractedAnswers.
RunPageResponse(outcome, throws) ==
    /\ runPc = "await-page"
    /\ extractionsInFlight # <<>>
    /\ extractionsInFlight' = Tail(extractionsInFlight)
    /\ LET id == Head(extractionsInFlight)
           r == processPageRoute(id, outcome)
           succeeded == r.status = 200
           extracted == IF succeeded THEN outcome.answers ELSE NoAnswers
       IN  /\ throws => ~succeeded
           /\ pages' = r.pages
           /\ lastOp' = [NoOp EXCEPT !.op = "process-page", !.count = id,
                                     !.status = r.status]
           /\ IF throws
              THEN /\ runPc' = "failed"
                   /\ UNCHANGED <<runIndex, runResults, runExtracted, processingPage,
                                  processingProgress>>
              ELSE /\ runResults' = ObjectAssign(runResults, extracted)
                   /\ runExtracted' = Append(runExtracted, extracted)
                   /\ processingPage' = Some(runIndex + 1)
                   /\ processingProgress' = Progress(runIndex + 1, Len(runPages))
                   /\ runIndex' = runIndex + 1
                   /\ runPc' = IF runIndex + 1 < Len(runPages) THEN "page" ELSE "score"
    /\ UNCHANGED <<markSchemeEntries, tests, results, currentMarkSchemeEntryId,
                   currentTestId, currentPageId, currentResultId, contextVars,
                   currentStep, capturedPages, testResult, detailedResults,
                   totalProcessingPages, pendingCaptures, runTest, runPages, runSummary,
                   runResult, runDetailed>>

\* the state after a test has been created and its one-row mark scheme
\* uploaded: the upload has stored a second test record
CaptureScheme == <<[questionNumber |-> 1, expectedAnswer |-> <<"A">>, points |-> 1]>>

UploadedTest == [FirstTest EXCEPT !.id = 2, !.totalQuestions = 1, !.totalPoints = 1]

InitCapture ==
    /\ markSchemeEntries = EntriesOf(CaptureScheme, 1)
    /\ currentMarkSchemeEntryId = 2
    /\ tests = <<FirstTest, UploadedTest>>
    /\ currentTestId = 3
    /\ pages = <<>>
    /\ currentPageId = 1
    /\ results = <<>>
    /\ currentResultId = 1
    /\ currentTest = Some(FirstTest)
    /\ markScheme = CaptureScheme
    /\ columnMap = Null
    /\ file = Null
    /\ currentStep = "capture"
    /\ capturedPages = <<>>
    /\ testResult = Null
    /\ detailedResults = <<>>
    /\ processingPage = Null
    /\ totalProcessingPages = 0
    /\ processingProgress = Progress(0, 1)
    /\ pendingCaptures = <<>>
    /\ extractionsInFlight = <<>>
    /\ runPc = "idle"
    /\ runTest = Null
    /\ runPages = <<>>
    /\ runIndex = 0
    /\ runResults = NoAnswers
    /\ runExtracted = <<>>
    /\ runSummary = NoSummary
    /\ runResult = Null
    /\ runDetailed = <<>>
    /\ lastOp = NoOp

NextCapture ==
    \/ HandleCapture
    \/ \E k \in 1..MaxPages : PostPages(k)
    \/ \E pageNumber \in 1..MaxPages : HandleDeleteImage(pageNumber)
    \/ CaptureHandleNext
    \/ RunStart
    \/ RunSendPage
    \/ \E outcome \in ExtractionOutcomes, throws \in BOOLEAN :
          RunPageResponse(outcome, throws)
    \/ RunScore
    \/ \E throws \in BOOLEAN : RunPostResult(throws)
    \/ RunFetchDetailed
    \/ RunOnSuccess
    \/ RunOnError

SpecCapture == InitCapture /\ [][NextCapture]_vars

(***************************************************************************)
(* The workflow around a graded paper: the process step and the results    *)
(* step (components/ProcessStep, components/ResultsStep.tsx), and the      *)
(* reset of the context.  A handler and the requests it awaits are one     *)
(* step.                                                                   *)
(***************************************************************************)
MaxNextPapers == 1

\* ProcessStep: isProcessingComplete
isProcessingComplete ==
    \/ processingProgress = Progress(1, 1)
    \/ processingPage = Some(totalProcessingPages) /\ totalProcessingPages > 0

\* ProcessStep.handleBack; the button is disabled while the mutation is pending
ProcessHandleBack ==
    /\ currentStep = "process"
    /\ runPc = "idle"
    /\ currentStep' = "capture"
    /\ lastOp' = [NoOp EXCEPT !.op = "process-back"]
    /\ UNCHANGED <<storeVars, contextVars, capturedPages, testResult, detailedResults,
                   processingPage, totalProcessingPages, processingProgress,
                   pendingCaptures, extractionsInFlight, runPc, runTest, runPages,
                   runIndex, runResults, runExtracted, runSummary, runResult,
                   runDetailed>>

\* ProcessStep.handleNext; the button is enabled when processing is shown as
\* complete and the mutation is not pending
ProcessHandleNext ==
    /\ currentStep = "process"
    /\ runPc = "idle"
    /\ isProcessingComplete
    /\ currentStep' = "results"
    /\ lastOp' = [NoOp EXCEPT !.op = "view-results"]
    /\ UNCHANGED <<storeVars, contextVars, capturedPages, testResult, detailedResults,
                   processingPage, totalProcessingPages, processingProgress,
                   pendingCaptures, extractionsInFlight, runPc, runTest, runPages,
                   runIndex, runResults, runExtracted, runSummary, runResult,
                   runDetailed>>

\* ResultsStep.handleBack
ResultsHandleBack ==
    /\ currentStep = "results"
    /\ currentStep' = "process"
    /\ lastOp' = [NoOp EXCEPT !.op = "results-back"]
    /\ UNCHANGED <<storeVars, contextVars, capturedPages, testResult, detailedResults,
                   processingPage, totalProcessingPages, processingProgress,
                   pendingCaptures, extractionsInFlight, runPc, runTest, runPages,
                   runIndex, runResults, runExtracted, runSummary, runResult,
                   runDetailed>>

\* ResultsStep.handleNextPaper (the button is rendered when there is a
\* result): GET /mark-scheme/:id, POST /tests with the name and totals of the
\* current test, POST /mark-scheme with the fetched entries for the new test
\* (its answer is not read), setCurrentTest, clearCapturedPages,
\* setTestResult(null), setDetailedResults([]), setStep('capture')
HandleNextPaper ==
    /\ currentStep = "results"
    /\ testResult # Null
    /\ IF currentTest = Null
       THEN /\ lastOp' = [NoOp EXCEPT !.op = "next-paper"]
            /\ UNCHANGED <<storeVars, currentTest>>
       ELSE LET fetched  == getMarkScheme(currentTest[1].id)
                created  == createTestIn(tests, currentTestId,
                               [name |-> currentTest[1].name,
                                totalQuestions |-> currentTest[1].totalQuestions,
                                totalPoints |-> currentTest[1].totalPoints])
                newTest  == created[Len(created)]
                parsed   == ArraySafeParse(ToJsonRows(fetched))
                batch    == [i \in DOMAIN parsed.data |->
                               [questionNumber |-> parsed.data[i].questionNumber,
                                expectedAnswer |-> Trim(parsed.data[i].expectedAnswer),
                                points         |-> parsed.data[i].points,
                                testId         |-> newTest.id]]
                stored   == addMarkSchemeEntriesTo(markSchemeEntries,
                                                   currentMarkSchemeEntryId, batch)
                entries  == SubSeq(stored, Len(markSchemeEntries) + 1, Len(stored))
                copied   == fetched # <<>> /\ parsed.success
            IN  /\ Len(tests) < 2 + 2 * MaxNextPapers
                /\ markSchemeEntries' = IF copied THEN stored ELSE markSchemeEntries
                /\ currentMarkSchemeEntryId' =
                      IF copied THEN currentMarkSchemeEntryId + Len(batch)
                      ELSE currentMarkSchemeEntryId
                /\ tests' = IF copied
                            THEN createTestIn(created, currentTestId + 1,
                                    [name |-> newTest.name,
                                     totalQuestions |-> Len(entries),
                                     totalPoints |-> Sum(PointsOf(entries))])
                            ELSE created
                /\ currentTestId' = IF copied THEN currentTestId + 2 ELSE currentTestId + 1
                /\ currentTest' = Some(newTest)
                /\ lastOp' = [NoOp EXCEPT !.op = "next-paper", !.testId = newTest.id,
                                 !.status = IF fetched = <<>> THEN 0
                                            ELSE IF parsed.success THEN 200 ELSE 400,
                                 !.count = Len(fetched)]
                /\ UNCHANGED <<pages, results, currentPageId, currentResultId>>
    /\ capturedPages' = <<>>
    /\ testResult' = Null
    /\ detailedResults' = <<>>
    /\ currentStep' = "capture"
    /\ UNCHANGED <<markScheme, columnMap, file, processingPage, totalProcessingPages,
                   processingProgress, pendingCaptures, extractionsInFlight, runPc,
                   runTest, runPages, runIndex, runResults, runExtracted, runSummary,
                   runResult, runDetailed>>

\* TestGraderContext.resetTestGrader, called by handleClearData of the
\* settings dialog and by handleNewTest: the requests in flight and the
\* running mutation are not touched
ResetTestGrader ==
    /\ currentStep' = "mark-scheme"
    /\ currentTest' = Null
    /\ markScheme' = <<>>
    /\ capturedPages' = <<>>
    /\ testResult' = Null
    /\ detailedResults' = <<>>
    /\ processingPage' = Null
    /\ totalProcessingPages' = 0
    /\ processingProgress' = Progress(0, 1)
    /\ columnMap' = Null
    /\ lastOp' = [NoOp EXCEPT !.op = "reset"]
    /\ UNCHANGED <<storeVars, file, pendingCaptures, extractionsInFlight, runPc, runTest,
                   runPages, runIndex, runResults, runExtracted, runSummary, runResult,
                   runDetailed>>

NextWorkflow ==
    \/ HandleCapture
    \/ \E k \in 1..MaxPages : PostPages(k)
    \/ \E pageNumber \in 1..MaxPages : HandleDeleteImage(pageNumber)
    \/ CaptureHandleNext
    \/ RunStart
    \/ RunSendPage
    \/ \E outcome \in ExtractionOutcomes, throws \in BOOLEAN :
          RunPageResponse(outcome, throws)
    \/ RunScore
    \/ \E throws \in BOOLEAN : RunPostResult(throws)
    \/ RunFetchDetailed
    \/ RunOnSuccess
    \/ RunOnError
    \/ ProcessHandleBack
    \/ ProcessHandleNext
    \/ ResultsHandleBack
    \/ HandleNextPaper
    \/ ResetTestGrader

SpecWorkflow == InitCapture /\ [][NextWorkflow]_vars

\* the requests in flight are answered, extraction succeeds when it can, and
\* the effect and the continuations of the mutation run
SpecWorkflowFair ==
    /\ SpecWorkflow
    /\ WF_vars(\E k \in 1..MaxPages : PostPages(k))
    /\ WF_vars(RunStart)
    /\ WF_vars(RunSendPage)
    /\ SF_vars(\E outcome \in ExtractionOutcomes : outcome.ok /\ RunPageResponse(outcome, FALSE))
    /\ WF_vars(RunScore)
    /\ WF_vars(RunPostResult(FALSE))
    /\ WF_vars(RunFetchDetailed)
    /\ WF_vars(RunOnSuccess)
    /\ WF_vars(RunOnError)

(***************************************************************************)
(* Claims about the mark-scheme store (specification Spec).                *)
(***************************************************************************)
UploadSucceeded == lastOp.op = "mark-scheme" /\ lastOp.status = 200

\* the entries the last successful upload stored: the newest lastOp.count ids
LatestUpload ==
    SubSeq(markSchemeEntries, Len(markSchemeEntries) - lastOp.count + 1,
           Len(markSchemeEntries))

\* C1: after a successful POST /mark-scheme for a test, getMarkScheme(testId)
\* returns exactly the entries of that latest upload and none of an earlier one.
C1_ReplaceOnReupload ==
    UploadSucceeded =>
        getMarkScheme(lastOp.testId) = SortByQuestionNumber(LatestUpload)

\* C2: no two stored mark-scheme entries share the pair (testId, questionNumber).
C2_UniqueQuestionPerTest ==
    \A i, j \in DOMAIN markSchemeEntries :
        (/\ markSchemeEntries[i].testId = markSchemeEntries[j].testId
         /\ markSchemeEntries[i].questionNumber = markSchemeEntries[j].questionNumber)
        => i = j

\* C3: after a successful upload for an existing test T, getTest(T.id) has
\* totalQuestions = the number of entries stored for T and totalPoints = the
\* sum of their points.
C3_TotalsFollowEntries ==
    (UploadSucceeded /\ HasTest(lastOp.testId)) =>
        /\ getTest(lastOp.testId).totalQuestions = Len(getMarkScheme(lastOp.testId))
        /\ getTest(lastOp.testId).totalPoints = Sum(PointsOf(getMarkScheme(lastOp.testId)))

\* the ids of the stored tests
TestIdsOf(ts) == {ts[k].id : k \in DOMAIN ts}

\* C21: a POST /mark-scheme step leaves the set of stored test ids as it was,
\* and changes no field of a stored test other than its totals.
C21_UploadCreatesNoTest ==
    [][lastOp'.op = "mark-scheme" =>
          /\ TestIdsOf(tests') = TestIdsOf(tests)
          /\ Len(tests') = Len(tests)
          /\ \A k \in DOMAIN tests :
                /\ tests'[k].id = tests[k].id
                /\ tests'[k].name = tests[k].name]_vars

\* C22: every stored mark-scheme entry, page and result has the id of a
\* stored test as its testId, and no test has more than one stored result.
C22_Ownership ==
    /\ \A k \in DOMAIN markSchemeEntries : markSchemeEntries[k].testId \in TestIdsOf(tests)
    /\ \A k \in DOMAIN pages : pages[k].testId \in TestIdsOf(tests)
    /\ \A k \in DOMAIN results : results[k].testId \in TestIdsOf(tests)
    /\ \A i, j \in DOMAIN results : results[i].testId = results[j].testId => i = j

(***************************************************************************)
(* Claims about the workflow (specifications SpecWorkflow,                 *)
(* SpecWorkflowFair).                                                      *)
(***************************************************************************)
\* the current test is one that Next Paper created
NextPaperStarted == currentTest # Null /\ currentTest[1].id # FirstTest.id

\* pages have been captured, all of them for the current test
NewPagesCaptured ==
    /\ capturedPages # <<>>
    /\ \A k \in DOMAIN capturedPages : capturedPages[k].testId = currentTest[1].id

\* the run has sent the page to POST /pages/:id/process
SentForExtraction(page) ==
    \E k \in DOMAIN runPages :
        /\ runPages[k].id = page.id
        /\ k <= runIndex \/ (k = runIndex + 1 /\ runPc = "await-page")

\* the process step shows "Processing Complete"
ShowsComplete == currentStep = "process" /\ runPc = "idle" /\ isProcessingComplete

\* C26: for a paper started with Next Paper, the process step never shows
\* processing as complete while a captured page was never sent for
\* extraction; and once the process step is entered with a captured page, a
\* result is eventually produced (or the paper is abandoned by a reset).
C26_NextPaperGetsGraded ==
    /\ []((NextPaperStarted /\ NewPagesCaptured /\ ShowsComplete) =>
             \A k \in DOMAIN capturedPages : SentForExtraction(capturedPages[k]))
    /\ ((NextPaperStarted /\ NewPagesCaptured /\ currentStep = "process")
           ~> (testResult # Null \/ ~NextPaperStarted))

\* the steps that complete work in flight, as opposed to the user's actions
CompletionOps == {"pages", "send-page", "process-page", "score", "results", "detailed",
                  "run-success", "run-error"}

\* C27: when work in flight completes right after resetTestGrader, the
\* current test, the captured pages and the result stay empty and the step
\* stays mark-scheme.
C27_ResetIsNotUndone ==
    [][(lastOp.op = "reset" /\ lastOp'.op \in CompletionOps) =>
          /\ currentTest' = Null
          /\ capturedPages' = <<>>
          /\ testResult' = Null
          /\ currentStep' = "mark-scheme"]_vars

(***************************************************************************)
(* Claims about the upload path (specification SpecUpload).                *)
(***************************************************************************)
IsUpload(op) == op.op \in {"confirm", "mark-scheme"}

\* C10: an upload with a row that fails coercion/validation stores no entry of
\* the batch and is not answered with success; an upload that succeeds stores
\* one entry per row of the batch.
C10_AllOrNothing ==
    [][IsUpload(lastOp') =>
          /\ lastOp'.badRow =>
                /\ markSchemeEntries' = markSchemeEntries
                /\ lastOp'.status # 200
          /\ lastOp'.status = 200 =>
                /\ Len(markSchemeEntries') = Len(markSchemeEntries) + lastOp'.rows
                /\ lastOp'.count = lastOp'.rows]_vars

\* a batch of two rows, one of them bad, was refused while the store held entries
C10_Witness ==
    /\ IsUpload(lastOp) /\ lastOp.badRow /\ lastOp.rows = 2
    /\ lastOp.status # 200
    /\ markSchemeEntries # <<>>

(***************************************************************************)
(* Claims about the result store (specification SpecResults).              *)
(***************************************************************************)
\* C4: for every test with a result, getResult(testId) is the most recently
\* added result of that test and getDetailedResults(testId) is computed from
\* that result's studentAnswers.
C4_CurrentResultIsLatest ==
    \A testId \in TestIds :
        HasResult(testId) =>
            /\ getResult(testId) = LatestResult(testId)
            /\ getDetailedResults(testId) = DetailedFor(LatestResult(testId), testId)

\* the positions of the store that hold the entries of the test
EntriesOfTest(testId) == {k \in DOMAIN markSchemeEntries : markSchemeEntries[k].testId = testId}

\* question number, expected answer and points of an entry or of an item
Triple(x) == <<x.questionNumber, x.expectedAnswer, x.points>>

\* C16: while a Result exists for a test, getDetailedResults(testId) has one
\* item per entry the store holds for the test now, in ascending order of
\* questionNumber, with the entry's expected answer and points, and each item
\* has earnedPoints = points if it is correct and 0 otherwise.
C16_DetailedFollowsScheme ==
    \A testId \in TestIds :
        HasResult(testId) =>
            LET items == getDetailedResults(testId)
            IN  /\ Len(items) = Cardinality(EntriesOfTest(testId))
                /\ \A i, j \in DOMAIN items :
                      i < j => items[i].questionNumber <= items[j].questionNumber
                /\ \A k \in EntriesOfTest(testId) :
                      Cardinality({i \in DOMAIN items :
                                      Triple(items[i]) = Triple(markSchemeEntries[k])})
                        = Cardinality({n \in EntriesOfTest(testId) :
                                          Triple(markSchemeEntries[n])
                                             = Triple(markSchemeEntries[k])})
                /\ \A i \in DOMAIN items :
                      items[i].earnedPoints
                         = IF items[i].correct THEN items[i].points ELSE 0

\* the mark scheme of a test with a Result has just been extended by question
\* 1, after question 2 had been stored
C16_Witness ==
    /\ lastOp.op = "mark-scheme" /\ lastOp.status = 200 /\ lastOp.count = 1
    /\ HasResult(lastOp.testId)
    /\ Len(getDetailedResults(lastOp.testId)) = 2
    /\ markSchemeEntries[Len(markSchemeEntries)].questionNumber = 1
    /\ \E k \in EntriesOfTest(lastOp.testId) : markSchemeEntries[k].questionNumber = 2

\* the last step answered GET /results/:testId/detailed
AnsweredDetailed(op) == op.op = "get-detailed"

\* C17: GET /results/:testId/detailed for a test without Result, or without
\* mark-scheme entries, is answered 200 with the empty list and leaves the
\* store as it was.
C17_MissingEntitiesAreNotErrors ==
    [][(/\ AnsweredDetailed(lastOp')
        /\ ~HasResult(lastOp'.testId) \/ EntriesOfTest(lastOp'.testId) = {})
       => /\ lastOp'.status = 200
          /\ lastOp'.count = 0
          /\ storeVars' = storeVars]_vars

\* the detailed results of a test with entries but no Result, and of a test
\* with a Result but no entries, were asked for
C17_Witness ==
    /\ AnsweredDetailed(lastOp) /\ lastOp.count = 0
    /\ \/ ~HasResult(lastOp.testId) /\ EntriesOfTest(lastOp.testId) # {}
       \/ HasResult(lastOp.testId) /\ EntriesOfTest(lastOp.testId) = {}

(***************************************************************************)
(* Claims about the scoring step (specification SpecScore).                *)
(***************************************************************************)
\* the mark scheme the run fetched for its test
FetchedScheme == getMarkScheme(runTest[1].id)

\* the scoring step has run: runSummary holds what it computed
Scored == runPc = "post"

\* C5: when the fetched mark scheme is empty, or all its points are 0, the
\* scoring step yields totalPoints = 0, pointsEarned = 0 and scorePercentage = 0.
C5_ZeroDivisionSafety ==
    (Scored /\ Sum(PointsOf(FetchedScheme)) = 0) =>
        runSummary = [pointsEarned |-> 0, totalPoints |-> 0,
                      scorePercentage |-> Number(0)]

\* an entry without expected answer that the student left unanswered
EmptyVsEmpty(entry) ==
    /\ entry.expectedAnswer = <<>>
    /\ AnswerOrEmpty(runResults, NumToString(entry.questionNumber)) = <<>>

PointsIfEmptyVsEmpty(entry) == IF EmptyVsEmpty(entry) THEN entry.points ELSE 0

\* C6: every entry whose expected answer is empty and whose student answer is
\* absent or empty is scored correct: its points are part of pointsEarned.
C6_EmptyMatchesEmpty ==
    Scored => runSummary.pointsEarned >=
                 Sum([i \in DOMAIN FetchedScheme |->
                         PointsIfEmptyVsEmpty(FetchedScheme[i])])

EarnedPointsOf(items) == [i \in DOMAIN items |-> items[i].earnedPoints]

\* the run has recorded its Result and fetched the breakdown
Recorded == runPc = "success" /\ HasResult(runTest[1].id)

\* C7: the recorded Result has totalPoints = the sum of the entry points,
\* pointsEarned = the sum of the earnedPoints of the items getDetailedResults
\* returns, and scorePercentage = round(100 * pointsEarned / totalPoints).
C7_SummaryAgreesWithBreakdown ==
    Recorded =>
        LET r == getResult(runTest[1].id)
            earned == Sum(EarnedPointsOf(getDetailedResults(runTest[1].id)))
        IN  /\ r.totalPoints = Sum(PointsOf(FetchedScheme))
            /\ r.pointsEarned = earned
            /\ r.totalPoints > 0 =>
                  r.scorePercentage = (200 * earned + r.totalPoints) \div (2 * r.totalPoints)

\* C8: the computed Result satisfies 0 <= pointsEarned <= totalPoints and
\* 0 <= scorePercentage <= 100.
C8_ScoreBounds ==
    Scored =>
        /\ 0 <= runSummary.pointsEarned
        /\ runSummary.pointsEarned <= runSummary.totalPoints
        /\ ~runSummary.scorePercentage.nan
        /\ 0 <= runSummary.scorePercentage.val
        /\ runSummary.scorePercentage.val <= 100

\* the student's answer to the entry equals its expected answer, letter case aside
MatchesIgnoringCase(entry) ==
    ToUpperCase(AnswerOrEmpty(runResults, NumToString(entry.questionNumber)))
        = ToUpperCase(entry.expectedAnswer)

PointsIfMatches(entry) == IF MatchesIgnoringCase(entry) THEN entry.points ELSE 0

\* C15: the summary scorer counts the points of exactly the entries whose
\* uppercased student answer equals the uppercased expected answer, and every
\* item of the detailed results is correct exactly when its uppercased answers
\* are equal, with earnedPoints = points when correct and 0 otherwise.
C15_CaseInsensitiveMatch ==
    /\ Scored =>
          runSummary.pointsEarned =
              Sum([i \in DOMAIN FetchedScheme |-> PointsIfMatches(FetchedScheme[i])])
    /\ runPc = "success" =>
          \A i \in DOMAIN runDetailed :
              LET item == runDetailed[i]
              IN  /\ item.correct <=>
                        ToUpperCase(item.studentAnswer) = ToUpperCase(item.expectedAnswer)
                  /\ item.earnedPoints = IF item.correct THEN item.points ELSE 0

(***************************************************************************)
(* Claims about the aggregation of extracted answers (SpecCapture).        *)
(***************************************************************************)
\* the iterations of the finished page loop whose page reported the question
Reporters(key) == {i \in DOMAIN runExtracted : key \in DOMAIN runExtracted[i]}

\* ... and the one among them with the highest pageNumber
HighestReporter(key) ==
    CHOOSE i \in Reporters(key) :
        \A j \in Reporters(key) : runPages[j].pageNumber <= runPages[i].pageNumber

\* C9: when the page loop has finished, every question that some page of the
\* run reported holds, in the merged answer map, the answer of the reporting
\* page with the highest pageNumber, whatever the order of capturedPages.
C9_LastByPageNumber ==
    runPc = "score" =>
        \A key \in DOMAIN runResults :
            Reporters(key) # {} =>
                runResults[key] = runExtracted[HighestReporter(key)][key]

(***************************************************************************)
(* Claims about the normalizer (specification SpecNormalize).              *)
(***************************************************************************)
StandardMap == [questionNumberCol |-> "Q", expectedAnswerCol |-> "A", pointsCol |-> "P"]

\* the last step confirmed the standard mapping on the chosen file
Confirmed == lastOp.op = "confirm" /\ file # Null /\ columnMap = Some(StandardMap)

\* ... and the mark scheme was loaded and stored
Loaded == Confirmed /\ lastOp.status = 200

\* the integer formed by the decimal digits of a text, read from the left
RECURSIVE ValueOfDigits(_)
ValueOfDigits(chars) ==
    IF chars = <<>> THEN 0
    ELSE IF IsDigit(Head(chars))
         THEN (CHOOSE d \in 0..9 : Digits[d + 1] = Head(chars))
                 * 10 ^ Cardinality({k \in DOMAIN Tail(chars) : IsDigit(Tail(chars)[k])})
              + ValueOfDigits(Tail(chars))
         ELSE ValueOfDigits(Tail(chars))

HasDigit(chars) == \E k \in DOMAIN chars : IsDigit(chars[k])

MissingCell(cell) == cell.t \in {"undefined", "null"}

\* the question number the rule gives the cell of the row at 0-based index, in tenths
ClaimedQuestionNumber(cell, index) ==
    IF MissingCell(cell) THEN 10 * (index + 1)
    ELSE IF cell.t = "number" THEN cell.n
    ELSE IF HasDigit(cell.s) THEN 10 * ValueOfDigits(cell.s)
    ELSE 10 * (index + 1)

\* the points the rule gives the cell, in tenths
ClaimedPoints(cell) ==
    IF MissingCell(cell) \/ cell = Str(<<>>) THEN 10
    ELSE IF cell.t = "number" THEN cell.n
    ELSE IF HasDigit(cell.s) THEN 10 * ValueOfDigits(cell.s)
    ELSE 10

\* the question number and the points the rules give the row are valid
ValidNumbers(row, index) ==
    LET q   == ClaimedQuestionNumber(row["Q"], index)
        pts == ClaimedPoints(row["P"])
    IN  q % 10 = 0 /\ q > 0 /\ pts % 10 = 0 /\ pts >= 0

EmptyAnswerCell(cell) == MissingCell(cell) \/ cell = Str(<<>>)

UndefinedText(cell) ==
    /\ cell.t = "string"
    /\ cell.s \in {Chars("undefined"), Chars("UNDEFINED"), Chars("Undefined")}

PlainAnswerCell(cell) ==
    cell.t = "string" /\ Trim(cell.s) # <<>> /\ ~UndefinedText(cell)

\* the entries the store added for the rows of the last upload
StoredForRow(i) == markSchemeEntries[Len(markSchemeEntries) - Len(file[1]) + i]

\* C11: when every row of the confirmed file has valid numbers and an expected
\* answer that is either plain text or empty, and some answer is empty, the
\* upload succeeds and the entries of the empty cells are loaded and stored
\* with the empty expected answer.
C11_EmptyAnswerIsValid ==
    ( /\ Confirmed
      /\ \A i \in DOMAIN file[1] :
            /\ ValidNumbers(file[1][i], i - 1)
            /\ EmptyAnswerCell(file[1][i]["A"]) \/ PlainAnswerCell(file[1][i]["A"])
      /\ \E i \in DOMAIN file[1] : EmptyAnswerCell(file[1][i]["A"]) )
    => /\ Loaded
       /\ \A i \in DOMAIN file[1] :
             EmptyAnswerCell(file[1][i]["A"]) =>
                /\ markScheme[i].expectedAnswer = <<>>
                /\ StoredForRow(i).expectedAnswer = <<>>

\* C12: when every row of the confirmed file has valid numbers and an expected
\* answer that is either plain text or the word undefined in some letter
\* case, the upload succeeds and the entries of the undefined cells have the
\* empty expected answer.
C12_LiteralUndefinedGuard ==
    ( /\ Confirmed
      /\ \A i \in DOMAIN file[1] :
            /\ ValidNumbers(file[1][i], i - 1)
            /\ UndefinedText(file[1][i]["A"]) \/ PlainAnswerCell(file[1][i]["A"])
      /\ \E i \in DOMAIN file[1] : UndefinedText(file[1][i]["A"]) )
    => /\ Loaded
       /\ \A i \in DOMAIN file[1] :
             UndefinedText(file[1][i]["A"]) =>
                /\ markScheme[i].expectedAnswer = <<>>
                /\ StoredForRow(i).expectedAnswer = <<>>

\* a field of the mapping is unset, or names a column that is not a header
\* of the sheet
UnusableMapping(jsonData, cm) ==
    \/ \E col \in {cm.questionNumberCol, cm.expectedAnswerCol, cm.pointsCol} : col = ""
    \/ \E col \in {cm.questionNumberCol, cm.expectedAnswerCol, cm.pointsCol} :
          \A header \in DOMAIN jsonData[1] : header # col

\* C24: on the chosen file the normalizer rejects, with an error and without
\* entries, every mapping with an unset field or with a column that is not a
\* header; and confirming such a mapping changes neither the client's mark
\* scheme nor the store.
C24_MappingErrors ==
    /\ [](file # Null =>
            \A cm \in NormalizerColumnMaps :
                UnusableMapping(file[1], cm) =>
                    /\ ~parseExcelWithColumnMap(file[1], cm).ok
                    /\ parseExcelWithColumnMap(file[1], cm).error # ""
                    /\ parseExcelWithColumnMap(file[1], cm).data = <<>>)
    /\ [][\A cm \in NormalizerColumnMaps :
              (file # Null /\ UnusableMapping(file[1], cm) /\ ConfirmChosenFile(cm))
                  => UNCHANGED <<storeVars, markScheme>>]_vars

\* a mapping whose points column is not a header was confirmed and rejected
C24_Witness ==
    /\ lastOp.op = "confirm"
    /\ file # Null
    /\ columnMap = Some([questionNumberCol |-> "Q", expectedAnswerCol |-> "A",
                         pointsCol |-> "X"])
    /\ parseExcelWithColumnMap(file[1], columnMap[1]).error = "column-missing"
    /\ markScheme = <<>>

RECURSIVE WithoutOuterBlanks(_)
WithoutOuterBlanks(chars) ==
    IF chars = <<>> THEN <<>>
    ELSE IF Head(chars) = " " THEN WithoutOuterBlanks(Tail(chars))
    ELSE IF chars[Len(chars)] = " " THEN WithoutOuterBlanks(SubSeq(chars, 1, Len(chars) - 1))
    ELSE chars

\* the canonical form the rule gives a non-empty answer text
ClaimedAnswer(chars) ==
    LET trimmed == WithoutOuterBlanks(chars)
    IN  IF Len(trimmed) = 1 /\ trimmed[1] \in Range(LowerLetters)
        THEN <<UpperLetters[CHOOSE n \in DOMAIN LowerLetters : LowerLetters[n] = trimmed[1]]>>
        ELSE trimmed

C13_PointsCoercion ==
    Loaded =>
        \A i \in DOMAIN file[1] :
            markScheme[i].points * 10 = ClaimedPoints(file[1][i]["P"])

\* C14: every entry loaded from the confirmed file has the question number
\* the rule gives its cell: the value of a number, else the integer of the
\* digits, or the 1-based row index without digits or without a cell.
C14_QuestionNumberCoercion ==
    Loaded =>
        \A i \in DOMAIN file[1] :
            markScheme[i].questionNumber * 10
                = ClaimedQuestionNumber(file[1][i]["Q"], i - 1)

\* a second row without digits in its question cell was loaded as question 2,
\* or a row with the cell Q12 as question 12
C14_Witness ==
    /\ Loaded
    /\ \/ /\ Len(file[1]) = 2
          /\ file[1][2]["Q"] = Str(Chars("x"))
          /\ markScheme[2].questionNumber = 2
       \/ /\ file[1][1]["Q"] = Str(Chars("Q12"))
          /\ markScheme[1].questionNumber = 12

(***************************************************************************)
(* Claims about the stored pages and the page loop (SpecCapture).          *)
(***************************************************************************)
\* the last step was a successful extraction for the page with the id
ExtractedFor(op, id) == op.op = "process-page" /\ op.status = 200 /\ op.count = id

\* C18: a page is stored unprocessed; processed becomes true only in a step in
\* which the extraction for that page succeeds, and never becomes false again;
\* a page that is not processed has the empty map of extracted answers.
C18_PageLifecycle ==
    [][\A k \in DOMAIN pages' :
          /\ ~pages'[k].processed => pages'[k].extractedAnswers = NoAnswers
          /\ k \notin DOMAIN pages => ~pages'[k].processed
          /\ k \in DOMAIN pages =>
                /\ pages'[k].id = pages[k].id
                /\ pages[k].processed => pages'[k].processed
                /\ (~pages[k].processed /\ pages'[k].processed) =>
                      ExtractedFor(lastOp', pages[k].id)]_vars

\* an extraction has just succeeded with answers for one page while another
\* page is still unprocessed
C18_Witness ==
    /\ \E k \in DOMAIN pages :
          /\ ExtractedFor(lastOp, pages[k].id)
          /\ pages[k].processed
          /\ pages[k].extractedAnswers # NoAnswers
    /\ \E k \in DOMAIN pages : ~pages[k].processed

\* C19: at most one extraction request of the run is in flight, and the
\* request for the page at position k+1 is issued only when no request is in
\* flight and the responses of the k pages before it have been merged.
C19_SequentialProcessing ==
    [][/\ Len(extractionsInFlight') <= 1
       /\ lastOp'.op = "send-page" =>
             /\ extractionsInFlight = <<>>
             /\ Len(runExtracted) = runIndex
             /\ extractionsInFlight' = <<runPages[runIndex + 1].id>>]_vars

\* the request for the second page of a run has been issued after the answers
\* of the first were merged
C19_Witness ==
    /\ lastOp.op = "send-page"
    /\ runIndex = 1 /\ Len(runExtracted) = 1 /\ runExtracted[1] # NoAnswers
    /\ extractionsInFlight = <<runPages[2].id>>

\* the capture request the last step has started
StartedCapture == pendingCaptures'[Len(pendingCaptures')]

\* C20: every capture is started with a pageNumber that is at least 1 and
\* greater than the pageNumber of every page captured before it for the
\* test, whether that page is stored already or its request is still pending.
C20_PageNumbersFollowCaptureOrder ==
    [][lastOp'.op = "capture" =>
          /\ StartedCapture.pageNumber >= 1
          /\ \A k \in DOMAIN pages :
                pages[k].testId = StartedCapture.testId =>
                    pages[k].pageNumber < StartedCapture.pageNumber
          /\ \A k \in DOMAIN pendingCaptures :
                pendingCaptures[k].testId = StartedCapture.testId =>
                    pendingCaptures[k].pageNumber < StartedCapture.pageNumber]_vars

\* one capture is in flight, started on the list of captured pages as it is
SingleCapture ==
    /\ Len(pendingCaptures) = 1
    /\ pendingCaptures[1].pageNumber = Len(capturedPages) + 1

\* C28: when the one capture in flight succeeds, its page is added to the
\* captured pages and every page already in the list stays in place.
C28_CaptureKeepsPages ==
    [][(lastOp'.op = "pages" /\ SingleCapture) =>
          /\ Len(capturedPages') = Len(capturedPages) + 1
          /\ \A k \in DOMAIN capturedPages : capturedPages'[k] = capturedPages[k]]_vars

\* C30: POST /pages/:id/process leaves the pages as they are whenever it does
\* not answer 200 (unknown id: 404; missing key or failed extraction: 500),
\* and a run's request that is answered with an error changes no record of
\* the store.
C30_FailedProcessChangesNothing ==
    /\ [](\A id \in 1..(MaxPages + 1), outcome \in ExtractionOutcomes :
             LET r == processPageRoute(id, outcome)
             IN  /\ PagesWithId(id) = {} => r.status = 404
                 /\ (PagesWithId(id) # {} /\ ~outcome.ok) => r.status = 500
                 /\ r.status # 200 => r.pages = pages)
    /\ [][(lastOp'.op = "process-page" /\ lastOp'.status # 200) =>
             UNCHANGED storeVars]_vars

\* a request of the run was answered 500 and its page is still unprocessed
C30_Witness ==
    /\ lastOp.op = "process-page"
    /\ lastOp.status = 500
    /\ \E k \in DOMAIN pages :
          /\ pages[k].id = lastOp.count
          /\ ~pages[k].processed
          /\ pages[k].extractedAnswers = NoAnswers

(***************************************************************************)
(* A claim about the client's and the server's mark scheme (specification  *)
(* SpecUpload).                                                            *)
(***************************************************************************)
\* how often the entry value `t` occurs in the entries `s`
Occurrences(s, t) == Cardinality({j \in DOMAIN s : Triple(s[j]) = t})

\* C29: when the client has just loaded a mark scheme for the current test
\* (the Next button of the mark-scheme step is enabled), the server's mark
\* scheme of that test has the same entries.
C29_ServerHoldsShownScheme ==
    (lastOp.op = "confirm" /\ lastOp.status = 200 /\ currentTest # Null
        /\ markScheme # <<>>) =>
        LET server == getMarkScheme(currentTest[1].id)
        IN  /\ Len(server) = Len(markScheme)
            /\ \A i \in DOMAIN markScheme :
                  Occurrences(server, Triple(markScheme[i]))
                     = Occurrences(markScheme, Triple(markScheme[i]))

====
